---- MODULE Spec2Model ----
(***************************************************************************)
(* Model of the KCL native-execution backend driver (kclvm/cmd run.rs) and *)
(* of the runner's package-assembly tests (kclvm/runner tests.rs).         *)
(*                                                                         *)
(* Spec      : one invocation of run_command: exec_program's phases push   *)
(*             diagnostics into the session, then the driver's match on    *)
(*             the result (print / check-push-emit).                       *)
(* SessSpec  : the Diagnostic Session under a generic client that pushes,  *)
(*             queries and emits in any order.                             *)
(* BuildSpec : gen_libs_for_test run repeatedly over two program roots,    *)
(*             with module edits and cache removal between the builds.     *)
(*                                                                         *)
(* The session, exec_program and the assembler are not among the source    *)
(* files at hand; they are modelled from the specification (sections 4.1   *)
(* and 4.4).  has_errors and add_err are given an Err result only through  *)
(* the `?` of run.rs 24-25 (RunHasErrorsFail, RunAddErrFail).              *)
(***************************************************************************)
EXTENDS Integers, Sequences, FiniteSets, TLC

VARIABLES
    \* ---- Diagnostic Session (ParseSession / diag_handler) ----
    diags,        \* stashed diagnostics, in push order
    errCount,     \* number of error-severity diagnostics pushed so far
    sessState,    \* "Clean" | "Accumulating" | "Emitted"
    emitted,      \* what emit has printed so far, in order
    emitCount,    \* number of emit calls that drained a non-Clean session
    emitCalls,    \* number of calls of emit, whatever the state
    pushLog,      \* history: every diagnostic ever pushed, in order
    \* ---- run_command ----
    pc,           \* position of the driver
    output,       \* settings.output(): "None" | "Some"
    execRes,      \* result of exec_program: [kind |-> "none"|"Ok"|"Err", msg |-> cause]
    hasErr,       \* what has_errors returned at line 24: "unset" | "true" | "false"
    outcome,      \* "running" | "Ok" | "Err" | "Abort" | "Panic"
    stdout,       \* number of results printed to standard output
    fileOut,      \* number of results written to the output file
    \* ---- exec_program (lower layers) ----
    phase,        \* "idle" | Phases | "returned"
    \* ---- Package Assembler and the filesystem ----
    fs,           \* the filesystem: path -> object file content
    srcVer,       \* content version of each package's modules, per root
    build,        \* the gen_libs call in progress (or the last one)
    hist,         \* history of builds: what each package's object was made from
    \* ---- build-execute cycles, cleanup, parallel compilation ----
    cyc,          \* the build-execute cycles (execute): cycle id -> its state
    cl,           \* test_clean_path_for_genlibs: position and what it observed
    par           \* parallel package compilations and the shared interner

sessVars == <<diags, errCount, sessState, emitted, emitCount, emitCalls, pushLog>>
\* The session proper, without the count of emit calls.
sessData == <<diags, errCount, sessState, emitted, emitCount, pushLog>>
drvVars == <<pc, output, execRes, hasErr, outcome, stdout, fileOut>>
execVars == <<phase>>
buildVars == <<fs, srcVer, build, hist>>
auxVars == <<cyc, cl, par>>
vars == <<sessVars, drvVars, execVars, buildVars, auxVars>>

\* Largest number of warnings the lower layers push in one invocation.
MaxWarn == 2

Phases == <<"parse", "resolve", "assemble", "link", "execute">>
PhaseSet == {Phases[i] : i \in 1..Len(Phases)}

Severity == {"error", "warning"}

Diag(sev, cause, by) == [severity |-> sev, cause |-> cause, by |-> by]

NoRes == [kind |-> "none", msg |-> "none"]

\* ------------------------------------------------------------------
\* Diagnostic Session
\* ------------------------------------------------------------------

\* The boolean a query returned, as stored by its caller.
Answer(b) == IF b THEN "true" ELSE "false"

\* has_errors: is any pushed diagnostic error-severity.
HasErrors == errCount > 0

\* add_err / add_warning: push one diagnostic onto the session.
Push(d) ==
    /\ diags' = Append(diags, d)
    /\ errCount' = IF d.severity = "error" THEN errCount + 1 ELSE errCount
    /\ sessState' = "Accumulating"
    /\ pushLog' = Append(pushLog, d)
    /\ UNCHANGED <<emitted, emitCount, emitCalls>>

\* Mutant: emit signals abort whatever the state of the session.
EmitAborts_Always == TRUE

\* emit_and_abort: TRUE when it signals abort (non-zero completion).
EmitAborts == sessState # "Clean"

EmitAndAbort ==
    /\ emitCalls' = emitCalls + 1
    /\ IF sessState = "Clean"
       THEN UNCHANGED sessData
       ELSE /\ emitted' = emitted \o diags
            /\ diags' = <<>>
            /\ sessState' = "Emitted"
            /\ emitCount' = emitCount + 1
            /\ UNCHANGED <<errCount, pushLog>>

\* ------------------------------------------------------------------
\* exec_program: parse, resolve, assemble, link, execute.  Any phase may
\* push warnings; a failing phase returns Err(msg) and either has routed
\* the failure through the session (an error diagnostic) or has not.
\* ------------------------------------------------------------------

NextPhase(p) ==
    CASE p = "parse" -> "resolve"
      [] p = "resolve" -> "assemble"
      [] p = "assemble" -> "link"
      [] p = "link" -> "execute"
      [] OTHER -> "returned"

NumWarnings == Cardinality({i \in DOMAIN pushLog : pushLog[i].severity = "warning"})

ExecWarn ==
    /\ pc = "exec" /\ phase \in PhaseSet
    /\ NumWarnings < MaxWarn
    /\ Push(Diag("warning", "none", phase))
    /\ UNCHANGED <<drvVars, execVars, buildVars>>
    /\ UNCHANGED auxVars

ExecPhaseOk ==
    /\ pc = "exec" /\ phase \in PhaseSet
    /\ phase' = NextPhase(phase)
    /\ execRes' = IF phase = "execute" THEN [kind |-> "Ok", msg |-> "none"] ELSE execRes
    /\ UNCHANGED <<pc, output, hasErr, outcome, stdout, fileOut>>
    /\ UNCHANGED <<sessVars, buildVars>>
    /\ UNCHANGED auxVars

\* The message of a CodegenFailure: it names the package that failed to lower.
CodegenFailure(pkgpath) ==
    CASE pkgpath = "__main__" -> "CodegenFailure: __main__"
      [] pkgpath = "a" -> "CodegenFailure: a"
      [] OTHER -> "CodegenFailure: b"

\* The failures a phase can end with: the assemble phase fails on one package.
FailCauses(p) ==
    IF p = "assemble"
    THEN {CodegenFailure(pkgpath) : pkgpath \in {"__main__", "a", "b"}}
    ELSE {p}

\* Mutant: a codegen failure may reach the caller without being recorded.
RoutedChoices_Any(p) == BOOLEAN

\* Is the failure of a phase recorded in the session before Err(msg) is
\* returned: always for a codegen failure (spec 8), either way otherwise.
RoutedChoices(p) == IF p = "assemble" THEN {TRUE} ELSE BOOLEAN

ExecPhaseFail ==
    /\ pc = "exec" /\ phase \in PhaseSet
    /\ \E routed \in RoutedChoices(phase), cause \in FailCauses(phase) :
          /\ IF routed THEN Push(Diag("error", cause, phase)) ELSE UNCHANGED sessVars
          /\ execRes' = [kind |-> "Err", msg |-> cause]
    /\ phase' = "returned"
    /\ UNCHANGED <<pc, output, hasErr, outcome, stdout, fileOut>>
    /\ UNCHANGED buildVars
    /\ UNCHANGED auxVars

\* ------------------------------------------------------------------
\* run_command
\* ------------------------------------------------------------------

\* run.rs 13-16: build the settings, create the session, call exec_program.
RunStart ==
    /\ pc = "start"
    /\ \E o \in {"None", "Some"} : output' = o
    /\ \E convOk \in BOOLEAN :
          IF convOk
          THEN /\ pc' = "exec" /\ phase' = "parse" /\ outcome' = outcome
          ELSE /\ pc' = "done" /\ phase' = phase /\ outcome' = "Err"
    /\ UNCHANGED <<execRes, hasErr, stdout, fileOut>>
    /\ UNCHANGED <<sessVars, buildVars>>
    /\ UNCHANGED auxVars

\* Does a write to the output file or to standard output go through.
WriteOutcomes == BOOLEAN

\* Mutant: on the success path the driver emits the stashed diagnostics too.
RunOk_Emit ==
    /\ pc = "exec" /\ phase = "returned" /\ execRes.kind = "Ok"
    /\ IF output = "Some"
       THEN fileOut' = fileOut + 1 /\ stdout' = stdout
       ELSE stdout' = stdout + 1 /\ fileOut' = fileOut
    /\ EmitAndAbort
    /\ pc' = "ret"
    /\ UNCHANGED <<output, execRes, hasErr, outcome>>
    /\ UNCHANGED <<execVars, buildVars>>
    /\ UNCHANGED auxVars

\* run.rs 17-22: Ok(result): write the result to the file or print it.  A
\* failed fs::write panics in unwrap(), a failed println! panics as well.
RunOk ==
    /\ pc = "exec" /\ phase = "returned" /\ execRes.kind = "Ok"
    /\ \E written \in WriteOutcomes :
          IF written
          THEN /\ IF output = "Some"
                  THEN fileOut' = fileOut + 1 /\ stdout' = stdout
                  ELSE stdout' = stdout + 1 /\ fileOut' = fileOut
               /\ pc' = "ret" /\ outcome' = outcome
          ELSE /\ pc' = "done" /\ outcome' = "Panic"
               /\ UNCHANGED <<stdout, fileOut>>
    /\ UNCHANGED <<output, execRes, hasErr>>
    /\ UNCHANGED <<sessVars, execVars, buildVars>>
    /\ UNCHANGED auxVars

\* Mutant: the driver pushes the message without consulting has_errors.
RunHasErrors_NoCheck ==
    /\ pc = "exec" /\ phase = "returned" /\ execRes.kind = "Err"
    /\ hasErr' = Answer(HasErrors)
    /\ pc' = "push"
    /\ UNCHANGED <<output, execRes, outcome, stdout, fileOut>>
    /\ UNCHANGED <<sessVars, execVars, buildVars>>
    /\ UNCHANGED auxVars

\* Mutant: the driver asks "is any diagnostic stashed" instead of has_errors.
RunHasErrors_AnyDiag ==
    /\ pc = "exec" /\ phase = "returned" /\ execRes.kind = "Err"
    /\ hasErr' = Answer(Len(diags) > 0)
    /\ pc' = IF ~(Len(diags) > 0) THEN "push" ELSE "emit"
    /\ UNCHANGED <<output, execRes, outcome, stdout, fileOut>>
    /\ UNCHANGED <<sessVars, execVars, buildVars>>
    /\ UNCHANGED auxVars

\* Mutant: the driver checks and emits a session of its own, not the one it
\* handed to exec_program (Arc::new(ParseSession::default()) instead of
\* sess.clone() at line 16).
RunHasErrors_FreshSess ==
    /\ pc = "exec" /\ phase = "returned" /\ execRes.kind = "Err"
    /\ diags' = <<>> /\ errCount' = 0 /\ sessState' = "Clean"
    /\ UNCHANGED <<emitted, emitCount, emitCalls, pushLog>>
    /\ hasErr' = Answer(FALSE)
    /\ pc' = "push"
    /\ UNCHANGED <<output, execRes, outcome, stdout, fileOut>>
    /\ UNCHANGED <<execVars, buildVars>>
    /\ UNCHANGED auxVars

\* run.rs 23-24: Err(msg): query has_errors.
RunHasErrors ==
    /\ pc = "exec" /\ phase = "returned" /\ execRes.kind = "Err"
    /\ hasErr' = Answer(HasErrors)
    /\ pc' = IF ~HasErrors THEN "push" ELSE "emit"
    /\ UNCHANGED <<output, execRes, outcome, stdout, fileOut>>
    /\ UNCHANGED <<sessVars, execVars, buildVars>>
    /\ UNCHANGED auxVars

\* run.rs 24: has_errors()? returned Err: the driver returns it.
RunHasErrorsFail ==
    /\ pc = "exec" /\ phase = "returned" /\ execRes.kind = "Err"
    /\ pc' = "done" /\ outcome' = "Err"
    /\ UNCHANGED <<output, execRes, hasErr, stdout, fileOut>>
    /\ UNCHANGED <<sessVars, execVars, buildVars>>
    /\ UNCHANGED auxVars

\* Mutant: the message is pushed as a warning, not as an error.
RunAddErr_Warning ==
    /\ pc = "push"
    /\ Push(Diag("warning", execRes.msg, "driver"))
    /\ pc' = "emit"
    /\ UNCHANGED <<output, execRes, hasErr, outcome, stdout, fileOut>>
    /\ UNCHANGED <<execVars, buildVars>>
    /\ UNCHANGED auxVars

\* run.rs 25: add_err(StringError(msg)).
RunAddErr ==
    /\ pc = "push"
    /\ Push(Diag("error", execRes.msg, "driver"))
    /\ pc' = "emit"
    /\ UNCHANGED <<output, execRes, hasErr, outcome, stdout, fileOut>>
    /\ UNCHANGED <<execVars, buildVars>>
    /\ UNCHANGED auxVars

\* run.rs 25: add_err(..)? returned Err: the driver returns it.
RunAddErrFail ==
    /\ pc = "push"
    /\ pc' = "done" /\ outcome' = "Err"
    /\ UNCHANGED <<output, execRes, hasErr, stdout, fileOut>>
    /\ UNCHANGED <<sessVars, execVars, buildVars>>
    /\ UNCHANGED auxVars

\* Mutant: the result of emit is dropped (no `?`), the driver falls through
\* to Ok(()).
RunEmit_NoAbort ==
    /\ pc = "emit"
    /\ EmitAndAbort
    /\ pc' = "ret" /\ outcome' = outcome
    /\ UNCHANGED <<output, execRes, hasErr, stdout, fileOut>>
    /\ UNCHANGED <<execVars, buildVars>>
    /\ UNCHANGED auxVars

\* Mutant: the driver does not stop at the first emit and emits again.
RunEmit_Again ==
    /\ pc = "emit"
    /\ EmitAndAbort
    /\ IF emitCount >= 1
       THEN pc' = "done" /\ outcome' = "Abort"
       ELSE pc' = "emit" /\ outcome' = outcome
    /\ UNCHANGED <<output, execRes, hasErr, stdout, fileOut>>
    /\ UNCHANGED <<execVars, buildVars>>
    /\ UNCHANGED auxVars

\* run.rs 27: emit_stashed_diagnostics_and_abort()?.
RunEmit ==
    /\ pc = "emit"
    /\ EmitAndAbort
    /\ IF EmitAborts
       THEN pc' = "done" /\ outcome' = "Abort"
       ELSE pc' = "ret" /\ outcome' = outcome
    /\ UNCHANGED <<output, execRes, hasErr, stdout, fileOut>>
    /\ UNCHANGED <<execVars, buildVars>>
    /\ UNCHANGED auxVars

\* run.rs 30: Ok(()).
RunReturnOk ==
    /\ pc = "ret"
    /\ pc' = "done" /\ outcome' = "Ok"
    /\ UNCHANGED <<output, execRes, hasErr, stdout, fileOut>>
    /\ UNCHANGED <<sessVars, execVars, buildVars>>
    /\ UNCHANGED auxVars

InitSess ==
    /\ diags = <<>> /\ errCount = 0 /\ sessState = "Clean"
    /\ emitted = <<>> /\ emitCount = 0 /\ emitCalls = 0 /\ pushLog = <<>>

InitDrv ==
    /\ pc = "start" /\ output = "None" /\ execRes = NoRes
    /\ hasErr = "unset" /\ outcome = "running" /\ stdout = 0 /\ fileOut = 0

InitExec == phase = "idle"

InitBuild ==
    /\ fs = <<>> /\ srcVer = <<>> /\ build = <<>> /\ hist = <<>>

InitAux == cyc = <<>> /\ cl = <<>> /\ par = <<>>

Init == InitSess /\ InitDrv /\ InitExec /\ InitBuild /\ InitAux

Next ==
    \/ RunStart
    \/ ExecWarn
    \/ ExecPhaseOk
    \/ ExecPhaseFail
    \/ RunOk
    \/ RunHasErrors
    \/ RunHasErrorsFail
    \/ RunAddErr
    \/ RunAddErrFail
    \/ RunEmit
    \/ RunReturnOk

Spec == Init /\ [][Next]_vars

\* ------------------------------------------------------------------
\* A generic client of the Diagnostic Session: any phase pushing, querying
\* and emitting in any order (SessSpec).
\* ------------------------------------------------------------------

\* Largest number of diagnostics the generic client pushes.
MaxPush == 3
\* Largest number of emit calls the generic client makes.
MaxEmit == 2

SessPush ==
    /\ pc = "client"
    /\ Len(pushLog) < MaxPush
    /\ \E sev \in Severity, p \in {"parse", "execute"} :
          Push(Diag(sev, IF sev = "error" THEN p ELSE "none", p))
    /\ UNCHANGED <<drvVars, execVars, buildVars>>
    /\ UNCHANGED auxVars

SessHasErrors ==
    /\ pc = "client"
    /\ hasErr' = Answer(HasErrors)
    /\ UNCHANGED <<pc, output, execRes, outcome, stdout, fileOut>>
    /\ UNCHANGED <<sessVars, execVars, buildVars>>
    /\ UNCHANGED auxVars

SessEmit ==
    /\ pc = "client"
    /\ EmitAndAbort
    /\ outcome' = IF EmitAborts THEN "Abort" ELSE "Ok"
    /\ emitCalls < MaxEmit
    /\ UNCHANGED <<pc, output, execRes, hasErr, stdout, fileOut>>
    /\ UNCHANGED <<execVars, buildVars>>
    /\ UNCHANGED auxVars

InitClient ==
    /\ pc = "client" /\ output = "None" /\ execRes = NoRes
    /\ hasErr = "unset" /\ outcome = "running" /\ stdout = 0 /\ fileOut = 0

SessInit == InitSess /\ InitClient /\ InitExec /\ InitBuild /\ InitAux

SessNext == SessPush \/ SessHasErrors \/ SessEmit

SessSpec == SessInit /\ [][SessNext]_vars

\* ------------------------------------------------------------------
\* Package Assembler: gen_libs and its on-disk cache, driven by
\* gen_libs_for_test (BuildSpec).  A path is the sequence of the pieces its
\* string is made of; "/" is the separator.
\* ------------------------------------------------------------------

\* Largest number of edits of package modules in one behaviour; a package's
\* content version is the number of edits it has had.
MaxEdits == 2

MAIN_PKG_NAME == "__main__"
OBJECT_FILE_SUFFIX == <<".o">>

NamedPkgs == {"a", "b"}
AllPkgs == {MAIN_PKG_NAME} \cup NamedPkgs
Roots == {"r1", "r2"}
\* Program.pkgs of the program found at each root; the entry package is
\* always among them.
Programs == {S \in SUBSET AllPkgs : MAIN_PKG_NAME \in S}
\* The program at the second root: the entry package and one import.
OtherProgram == {MAIN_PKG_NAME, "a"}

\* Path::join
Join(dir, name) == dir \o <<"/">> \o name
\* format!("{}{}", a, b)
Concat(a, b) == a \o b
\* Is path p a file below directory dir.
InDir(dir, p) ==
    /\ Len(p) > Len(dir) + 1
    /\ SubSeq(p, 1, Len(dir)) = dir
    /\ p[Len(dir) + 1] = "/"

\* temp_file(tempdir) with the test's tag appended (tests.rs 360-372): a
\* fresh temporary file per case, outside every program root.
EntryFiles ==
    { Concat(Join(<<"tmp">>, <<"t1">>), <<"4gen_libs">>),
      Concat(Join(<<"tmp">>, <<"t2">>), <<"4gen_libs">>) }

\* KclvmAssembler::construct_cache_dir: a fixed hidden directory under the root.
ConstructCacheDir(root) == Join(Join(<<root>>, <<".kclvm">>), <<"cache">>)

\* Mutant: the entry package's object is expected in the cache directory too.
ConstructPkgLibPath_AllCache(root, pkgpath, main_path, suffix) ==
    Join(ConstructCacheDir(root), Concat(<<pkgpath>>, suffix))

\* Mutant: the suffix is left off the entry package's path.
ConstructPkgLibPath_NoSuffix(root, pkgpath, main_path, suffix) ==
    IF pkgpath = "__main__"
    THEN main_path
    ELSE Join(ConstructCacheDir(root), Concat(<<pkgpath>>, suffix))

\* Mutant: a non-entry package's path is derived from the entry file.
ConstructPkgLibPath_ByEntry(root, pkgpath, main_path, suffix) ==
    IF pkgpath = "__main__"
    THEN Concat(main_path, suffix)
    ELSE Concat(Concat(main_path, <<pkgpath>>), suffix)

\* construct_pkg_lib_path, for one package of prog.pkgs.
ConstructPkgLibPath(root, pkgpath, main_path, suffix) ==
    IF pkgpath = "__main__"
    THEN Concat(main_path, suffix)
    ELSE Join(ConstructCacheDir(root), Concat(<<pkgpath>>, suffix))

\* The path gen_libs gives the object of a package (spec 4.1, policy).
AsmLibPath(root, entry_file, pkgpath) ==
    IF pkgpath = MAIN_PKG_NAME
    THEN Concat(entry_file, OBJECT_FILE_SUFFIX)
    ELSE Concat(Join(ConstructCacheDir(root), <<pkgpath>>), OBJECT_FILE_SUFFIX)

\* The object lowered from a package's modules as they are now.
Object(root, pkgpath) ==
    [pkg |-> pkgpath, root |-> root, ver |-> srcVer[root].ver[pkgpath]]

\* Writing / removing one file.
WriteFile(p, obj) == [q \in DOMAIN fs \cup {p} |-> IF q = p THEN obj ELSE fs[q]]
RemoveFiles(ps) == [q \in DOMAIN fs \ ps |-> fs[q]]

\* Mutant: an object found at the cache path is reused whatever it was made from.
CacheValid_ExistsOnly(root, pkgpath, p) == p \in DOMAIN fs

\* Mutant: nothing is ever reused, every build regenerates.
CacheValid_Never(root, pkgpath, p) == FALSE

\* Is the object at cache path p a valid cache entry for the package: it was
\* made from the package's modules as they are now (content fingerprint).
CacheValid(root, pkgpath, p) ==
    /\ p \in DOMAIN fs
    /\ fs[p].pkg = pkgpath /\ fs[p].root = root
    /\ fs[p].ver = srcVer[root].ver[pkgpath]

NoBuild == [pc |-> "idle"]

\* tests.rs 226-234: gen_assembler and the expected paths.
TestStart ==
    /\ build.pc \in {"idle", "cleaned", "failed"}
    /\ \E root \in Roots, entry \in EntryFiles :
          build' = [ pc |-> "gen", root |-> root, entry |-> entry,
                     pkgs |-> srcVer[root].pkgs,
                     todo |-> srcVer[root].pkgs,
                     expected |-> [ p \in srcVer[root].pkgs |->
                                      ConstructPkgLibPath(root, p, entry, OBJECT_FILE_SUFFIX) ],
                     libPaths |-> <<>>,
                     served |-> <<>>,
                     regen |-> {}, stale |-> {},
                     prev |-> hist.last[root],
                     writes |-> {}, reads |-> {},
                     assertsOk |-> TRUE ]
    /\ UNCHANGED <<fs, srcVer, hist>>
    /\ UNCHANGED <<sessVars, drvVars, execVars>>
    /\ UNCHANGED auxVars

\* gen_libs, one package of Program.pkgs (in any order): the entry package
\* is always assembled at entry_file + suffix; another package is assembled
\* into the cache unless a valid cache entry is found there.
GenLibsPkg ==
    /\ build.pc = "gen"
    /\ \E pkgpath \in build.todo :
        LET p == AsmLibPath(build.root, build.entry, pkgpath)
            isMain == pkgpath = MAIN_PKG_NAME
            hit == ~isMain /\ CacheValid(build.root, pkgpath, p)
            obj == IF hit THEN fs[p] ELSE Object(build.root, pkgpath)
        IN  /\ fs' = IF hit THEN fs ELSE WriteFile(p, obj)
            /\ build' = [build EXCEPT
                  !.todo = @ \ {pkgpath},
                  !.libPaths = Append(@, p),
                  !.served = [q \in DOMAIN @ \cup {pkgpath} |->
                                 IF q = pkgpath THEN [path |-> p, obj |-> obj] ELSE @[q]],
                  !.regen = IF hit THEN @ ELSE @ \cup {pkgpath},
                  !.stale = IF ~isMain /\ ~hit /\ p \in DOMAIN fs
                            THEN @ \cup {pkgpath} ELSE @,
                  !.writes = IF hit THEN @ ELSE @ \cup {[pkg |-> pkgpath, path |-> p]},
                  !.reads = IF isMain THEN @ ELSE @ \cup {[pkg |-> pkgpath, path |-> p]} ]
    /\ UNCHANGED <<srcVer, hist>>
    /\ UNCHANGED <<sessVars, drvVars, execVars>>
    /\ UNCHANGED auxVars

\* gen_libs: a package fails to lower; the objects already written stay.
GenLibsFail ==
    /\ build.pc = "gen" /\ build.todo # {}
    /\ build' = [pc |-> "failed"]
    /\ UNCHANGED <<fs, srcVer, hist>>
    /\ UNCHANGED <<sessVars, drvVars, execVars>>
    /\ UNCHANGED auxVars

\* tests.rs 236: gen_libs returns the object paths.
GenLibsReturn ==
    /\ build.pc = "gen" /\ build.todo = {}
    /\ build' = [build EXCEPT !.pc = "returned"]
    /\ hist' = [hist EXCEPT !.last[build.root] =
                   [p \in AllPkgs |-> IF p \in build.pkgs /\ p # MAIN_PKG_NAME
                                      THEN srcVer[build.root].ver[p] ELSE @[p]]]
    /\ UNCHANGED <<fs, srcVer>>
    /\ UNCHANGED <<sessVars, drvVars, execVars>>
    /\ UNCHANGED auxVars

\* tests.rs 238-246: the lengths agree, every expected path exists, the
\* entry object exists.
TestAssert ==
    /\ build.pc = "returned"
    /\ build' = [build EXCEPT
          !.pc = "asserted",
          !.assertsOk =
              /\ Len(build.libPaths) = Cardinality(DOMAIN build.expected)
              /\ \A p \in DOMAIN build.expected : build.expected[p] \in DOMAIN fs
              /\ Concat(build.entry, OBJECT_FILE_SUFFIX) \in DOMAIN fs ]
    /\ UNCHANGED <<fs, srcVer, hist>>
    /\ UNCHANGED <<sessVars, drvVars, execVars>>
    /\ UNCHANGED auxVars

\* tests.rs 248-249: clean_path removes the entry object.
TestClean ==
    /\ build.pc = "asserted"
    /\ fs' = RemoveFiles({Concat(build.entry, OBJECT_FILE_SUFFIX)})
    /\ build' = [pc |-> "cleaned"]
    /\ UNCHANGED <<srcVer, hist>>
    /\ UNCHANGED <<sessVars, drvVars, execVars>>
    /\ UNCHANGED auxVars

\* tests.rs 524-529, 533-549: clean_dir removes a root's .kclvm directory.
CleanDir ==
    /\ build.pc \in {"idle", "cleaned", "failed"}
    /\ \E root \in Roots :
          /\ \E q \in DOMAIN fs : InDir(Join(<<root>>, <<".kclvm">>), q)
          /\ fs' = RemoveFiles({q \in DOMAIN fs : InDir(Join(<<root>>, <<".kclvm">>), q)})
          /\ hist' = [hist EXCEPT !.last[root] = [p \in AllPkgs |-> -1]]
    /\ UNCHANGED <<srcVer, build>>
    /\ UNCHANGED <<sessVars, drvVars, execVars>>
    /\ UNCHANGED auxVars

\* Between two builds the modules of a package are edited.
ModifySrc ==
    /\ build.pc \in {"idle", "cleaned", "failed"}
    /\ \E root \in Roots, pkgpath \in AllPkgs :
          /\ pkgpath \in srcVer[root].pkgs
          /\ hist.edits < MaxEdits
          /\ srcVer' = [srcVer EXCEPT ![root].ver[pkgpath] = @ + 1]
          /\ hist' = [hist EXCEPT !.edits = @ + 1]
    /\ UNCHANGED <<fs, build>>
    /\ UNCHANGED <<sessVars, drvVars, execVars>>
    /\ UNCHANGED auxVars

BuildInit ==
    /\ InitSess /\ InitClient /\ InitExec /\ InitAux
    /\ fs = <<>>
    /\ \E prog \in Programs :
          srcVer = [r \in Roots |->
                      [pkgs |-> IF r = "r1" THEN prog ELSE OtherProgram,
                       ver |-> [p \in AllPkgs |-> 0]]]
    /\ build = NoBuild
    /\ hist = [edits |-> 0, last |-> [r \in Roots |-> [p \in AllPkgs |-> -1]]]

BuildNext ==
    \/ TestStart
    \/ GenLibsPkg
    \/ GenLibsFail
    \/ GenLibsReturn
    \/ TestAssert
    \/ TestClean
    \/ CleanDir
    \/ ModifySrc

BuildSpec == BuildInit /\ [][BuildNext]_vars

\* ------------------------------------------------------------------
\* clean_path_for_genlibs, driven by test_clean_path_for_genlibs and by
\* further calls on any base path (CleanSpec).
\* ------------------------------------------------------------------

\* Largest number of calls of clean_path_for_genlibs besides the test's two.
MaxCleans == 2

\* tests.rs 425-431: the directory made at temp_file(tempdir) and "test" in it.
CleanTestDir == Join(<<"tmp">>, <<"t1">>)
FileName == Join(CleanTestDir, <<"test">>)
\* tests.rs 441-442: the two sharded companions.
Shards == {Concat(FileName, <<".test1", ".o">>), Concat(FileName, <<".test2", ".o">>)}
\* Files the test does not make: another suffix, another base, another directory.
OtherFiles ==
    { Concat(FileName, <<".test1", ".lock">>),
      Concat(Join(CleanTestDir, <<"other">>), <<".test1", ".o">>),
      Concat(Join(Join(<<"tmp">>, <<"t2">>), <<"test">>), <<".test1", ".o">>) }
CleanBases == {FileName, Join(CleanTestDir, <<"other">>), Join(CleanTestDir, <<"none">>)}
CleanSuffixes == {<<".o">>, <<".lock">>}

\* The pieces a shard name puts between the base and the suffix: ".<shard>".
DotPieces == {".test1", ".test2"}

\* Does path q match <base>.*<suffix>: the base, a dotted shard part, the suffix.
MatchesShard(q, base, suffix) ==
    /\ Len(q) > Len(base) + Len(suffix)
    /\ SubSeq(q, 1, Len(base)) = base
    /\ q[Len(base) + 1] \in DotPieces
    /\ SubSeq(q, Len(q) - Len(suffix) + 1, Len(q)) = suffix

\* clean_path_for_genlibs(path, suffix): the filesystem it leaves.  Removing
\* a path that does not exist is not an error.
CleanPathForGenlibs(path, suffix) ==
    RemoveFiles({path} \cup {q \in DOMAIN fs : MatchesShard(q, path, suffix)})

\* Mutant: the test cleans with another suffix than that of the files it makes.
TestCleanArgs_OtherSuffix == [path |-> FileName, suffix |-> <<".lock">>]

\* tests.rs 431-432, 438, 451: the arguments of the test's two calls.
TestCleanArgs == [path |-> FileName, suffix |-> <<".o">>]

ClCall(path, suffix, nextpc, asserted) ==
    /\ fs' = CleanPathForGenlibs(path, suffix)
    /\ cl' = [cl EXCEPT !.pc = nextpc,
                        !.calls = @ + 1,
                        !.path = path, !.suffix = suffix,
                        !.ok = TRUE,
                        !.assertsOk = @ /\ (\A q \in asserted : q \notin DOMAIN fs')]

\* tests.rs 434-436: File::create(file_name).
ClTestCreateBase ==
    /\ cl.pc = "start"
    /\ fs' = WriteFile(FileName, [pkg |-> "none", root |-> "none", ver |-> 0])
    /\ cl' = [cl EXCEPT !.pc = "base"]
    /\ UNCHANGED <<srcVer, build, hist, cyc, par>>
    /\ UNCHANGED <<sessVars, drvVars, execVars>>

\* tests.rs 438-439: the first clean; the base must be gone.
ClTestClean1 ==
    /\ cl.pc = "base"
    /\ ClCall(TestCleanArgs.path, TestCleanArgs.suffix, "cleaned1", {FileName})
    /\ UNCHANGED <<srcVer, build, hist, cyc, par>>
    /\ UNCHANGED <<sessVars, drvVars, execVars>>

\* tests.rs 441-449: File::create of the two shards.
ClTestCreateShards ==
    /\ cl.pc = "cleaned1"
    /\ fs' = [q \in DOMAIN fs \cup Shards |->
                 IF q \in Shards THEN [pkg |-> "none", root |-> "none", ver |-> 0] ELSE fs[q]]
    /\ cl' = [cl EXCEPT !.pc = "shards"]
    /\ UNCHANGED <<srcVer, build, hist, cyc, par>>
    /\ UNCHANGED <<sessVars, drvVars, execVars>>

\* tests.rs 451-453: the second clean, of the base already removed; the
\* shards must be gone.
ClTestClean2 ==
    /\ cl.pc = "shards"
    /\ ClCall(TestCleanArgs.path, TestCleanArgs.suffix, "end", Shards)
    /\ UNCHANGED <<srcVer, build, hist, cyc, par>>
    /\ UNCHANGED <<sessVars, drvVars, execVars>>

\* Any other call of clean_path_for_genlibs, on a base that exists, was
\* removed or never existed.
ClCleanAny ==
    /\ cl.extra < MaxCleans
    /\ \E path \in CleanBases, suffix \in CleanSuffixes :
          /\ fs' = CleanPathForGenlibs(path, suffix)
          /\ cl' = [cl EXCEPT !.calls = @ + 1, !.extra = @ + 1,
                              !.path = path, !.suffix = suffix, !.ok = TRUE]
    /\ UNCHANGED <<srcVer, build, hist, cyc, par>>
    /\ UNCHANGED <<sessVars, drvVars, execVars>>

CleanInit ==
    /\ InitSess /\ InitClient /\ InitExec
    /\ srcVer = <<>> /\ build = <<>> /\ hist = <<>> /\ cyc = <<>> /\ par = <<>>
    /\ \E present \in SUBSET (OtherFiles \cup (CleanBases \ {FileName})) :
          fs = [q \in present |-> [pkg |-> "none", root |-> "none", ver |-> 0]]
    /\ cl = [pc |-> "start", calls |-> 0, extra |-> 0, path |-> <<>>, suffix |-> <<>>,
             ok |-> TRUE, assertsOk |-> TRUE]

CleanNext ==
    \/ ClTestCreateBase
    \/ ClTestClean1
    \/ ClTestCreateShards
    \/ ClTestClean2
    \/ ClCleanAny

CleanSpec == CleanInit /\ [][CleanNext]_vars

\* ------------------------------------------------------------------
\* _test_gen_libs_parallel: threads that each run test_gen_libs in a loop
\* and share the identifier-allocation state used while lowering (ParSpec).
\* ------------------------------------------------------------------

\* Threads spawned (the test spawns four) and rounds of test_gen_libs per
\* thread (the test runs nine).
NumThreads == 2
MaxIters == 2

Threads == 1 .. NumThreads

\* What a data race on the shared naming state can produce.
RaceOutcomes == {"ok", "panic"}

ParThread(t) == par.th[t]

\* tests.rs 378-400: thread::spawn of every worker.
ParSpawn ==
    /\ par.pc = "main"
    /\ par' = [par EXCEPT !.pc = "spawned",
                          !.th = [t \in Threads |-> [pc |-> "ready", iter |-> 0, local |-> 0, ids |-> {}]]]
    /\ UNCHANGED <<fs, srcVer, build, hist, cyc, cl>>
    /\ UNCHANGED <<sessVars, drvVars, execVars>>

\* tests.rs 379-381: the next round of test_gen_libs begins; lowering reads
\* the shared identifier counter, with no lock taken.
ParAllocRead(t) ==
    /\ par.pc = "spawned"
    /\ ParThread(t).pc = "ready"
    /\ ParThread(t).iter < MaxIters
    /\ par' = [par EXCEPT !.th[t].pc = "alloc", !.th[t].local = par.next]
    /\ UNCHANGED <<fs, srcVer, build, hist, cyc, cl>>
    /\ UNCHANGED <<sessVars, drvVars, execVars>>

\* Lowering writes the counter back and keeps the identifier it read.  When
\* another thread is between its read and its write the access is a data
\* race: the thread goes on or panics.
ParAllocWrite(t) ==
    /\ par.pc = "spawned"
    /\ ParThread(t).pc = "alloc"
    /\ LET racing == \E u \in Threads \ {t} : ParThread(u).pc = "alloc"
       IN \E o \in (IF racing THEN RaceOutcomes ELSE {"ok"}) :
             par' = [par EXCEPT !.next = ParThread(t).local + 1,
                                !.raced = @ \/ racing,
                                !.th[t].pc = IF o = "panic" THEN "panicked" ELSE "ready",
                                !.th[t].iter = @ + 1,
                                !.th[t].ids = IF o = "panic" THEN @ ELSE @ \cup {ParThread(t).local}]
    /\ UNCHANGED <<fs, srcVer, build, hist, cyc, cl>>
    /\ UNCHANGED <<sessVars, drvVars, execVars>>

ParFinished(t) ==
    \/ ParThread(t).pc = "panicked"
    \/ ParThread(t).pc = "ready" /\ ParThread(t).iter = MaxIters

\* tests.rs 403-406: join().unwrap() of every worker; a panicked worker
\* makes unwrap panic.
ParJoin ==
    /\ par.pc = "spawned"
    /\ \A t \in Threads : ParFinished(t)
    /\ par' = [par EXCEPT !.pc = IF \E t \in Threads : ParThread(t).pc = "panicked"
                                 THEN "panicked" ELSE "joined"]
    /\ UNCHANGED <<fs, srcVer, build, hist, cyc, cl>>
    /\ UNCHANGED <<sessVars, drvVars, execVars>>

ParInit ==
    /\ InitSess /\ InitClient /\ InitExec
    /\ fs = <<>> /\ srcVer = <<>> /\ build = <<>> /\ hist = <<>> /\ cyc = <<>> /\ cl = <<>>
    /\ par = [pc |-> "main", next |-> 0, raced |-> FALSE, th |-> <<>>]

ParNext ==
    \/ ParSpawn
    \/ \E t \in Threads : ParAllocRead(t)
    \/ \E t \in Threads : ParAllocWrite(t)
    \/ ParJoin

ParSpec == ParInit /\ [][ParNext]_vars

\* ------------------------------------------------------------------
\* The build-execute cycle: execute(sess, program, args) as called by exec
\* and execute_for_test, and gen_libs as called by the timeout test
\* (CycleSpec).  Cycles run concurrently and share the cache of one root.
\* ------------------------------------------------------------------

\* The cycles: two, which may run at the same time.
Cycles == {1, 2}

CycRoot == "r1"

\* Scope.import_names of the resolved program: who imports whom.
ImportGraphs ==
    { [p \in AllPkgs |-> IF p = MAIN_PKG_NAME THEN {"a"} ELSE IF p = "a" THEN {"b"} ELSE {}],
      [p \in AllPkgs |-> IF p = MAIN_PKG_NAME THEN {"a"} ELSE {}],
      [p \in AllPkgs |-> IF p = MAIN_PKG_NAME THEN {"b"} ELSE IF p = "b" THEN {"a"} ELSE {}] }

\* tempdir(): directories it can hand out; one in use is never handed out again.
TmpDirs == {<<"tmp", "/", "d1">>, <<"tmp", "/", "d2">>}
\* temp_file(dir): the file names it can make inside dir.
TmpNames == {<<"f1">>, <<"f2">>}

\* Mutant: every cycle is given the same directory.
TempDirChoices_Shared(inUse) == {<<"tmp", "/", "d1">>}

\* tests.rs 334-336, 360-362: tempdir() makes a directory no one else has.
TempDirChoices(inUse) == TmpDirs \ inUse

\* temp_file(dir)
TempFile(dir, name) == Join(dir, name)

\* Mutant: the timeout test builds at an entry file that can be written.
TimeoutTestEntry_Writable == Join(<<"tmp", "/", "d1">>, <<"f1">>)

\* tests.rs 301-306: the entry file of the timeout test, in a directory
\* that does not exist.
TimeoutTestEntry == Join(<<"test">>, <<"no_exist_path">>)

\* Can a file be created at path p: its directory exists.
DirExists(p) == p[1] # "test"

\* Mutant: the caller's default arguments ask for unprotected invocation.
ArgsDefault_Unprotected == [unprotected |-> TRUE]

\* tests.rs 207, 569, 614: ExecProgramArgs::default().
ArgsDefault == [unprotected |-> FALSE]

\* Arguments of a caller that asks for default (unprotected) failure behaviour.
ArgsUnprotected == [unprotected |-> TRUE]

\* Mutant: no import names are handed to the assembler.
ImportNamesPassed_None(import_names) == [p \in AllPkgs |-> {}]

\* tests.rs 273-278: assemble is given scope.import_names as resolved.
ImportNamesPassed(import_names) == import_names

\* Packages reachable from the set S along import_names.
RECURSIVE Reach(_, _)
Reach(import_names, S) ==
    LET T == S \cup UNION {import_names[p] : p \in S}
    IN IF T = S THEN S ELSE Reach(import_names, T)

\* The objects the link is given: the entry package and what it imports,
\* transitively.
LinkSet(import_names) == Reach(import_names, {MAIN_PKG_NAME})

LIB_SUFFIX == <<".so">>
LibPath(entry) == Concat(entry, LIB_SUFFIX)

\* The text of Result::unwrap's panic on an Err value (its Debug form).
UnwrapPanicMsg(res) ==
    <<"called Result::unwrap() on an Err value: ",
      res.kind, res.msg>>

\* tests.rs 318: the panic message the timeout test expects.
timeout_panic_msg == <<"called Result::unwrap() on an Err value: ", "Timeout", "none">>

IdleCycle ==
    [pc |-> "idle", caller |-> "none", args |-> ArgsDefault, dir |-> <<>>, entry |-> <<>>,
     compiled |-> {}, linked |-> {}, loaded |-> FALSE, attempts |-> 0,
     result |-> NoRes, created |-> {}, unwound |-> FALSE]

Cyc(i) == cyc.c[i]

DirsInUse == {Cyc(j).dir : j \in {k \in Cycles : Cyc(k).pc \notin {"idle", "done"}}}

\* tests.rs 568-577 (exec), 206-212 (execute_for_test): a caller starts
\* execute with a fresh temp entry file.
CycStartExec(i) ==
    /\ Cyc(i).pc = "idle"
    /\ \E dir \in TempDirChoices(DirsInUse), name \in TmpNames, args \in {ArgsDefault, ArgsUnprotected} :
          cyc' = [cyc EXCEPT !.c[i] = [IdleCycle EXCEPT !.pc = "compile", !.caller = "exec",
                                           !.args = args, !.dir = dir,
                                           !.entry = TempFile(dir, name)]]
    /\ UNCHANGED <<fs, srcVer, build, hist, cl, par>>
    /\ UNCHANGED <<sessVars, drvVars, execVars>>

\* tests.rs 299-314: the timeout test starts gen_libs at its entry file.
CycStartTimeoutTest(i) ==
    /\ Cyc(i).pc = "idle"
    /\ TimeoutTestEntry \notin {Cyc(j).entry : j \in Cycles}
    /\ cyc' = [cyc EXCEPT !.c[i] = [IdleCycle EXCEPT !.pc = "compile", !.caller = "timeout_test",
                                           !.entry = TimeoutTestEntry]]
    /\ UNCHANGED <<fs, srcVer, build, hist, cl, par>>
    /\ UNCHANGED <<sessVars, drvVars, execVars>>

\* One package is compiled: the entry package to entry_file + ".o", any
\* other to the cache, where a valid object is reused.
CycCompile(i, pkgpath) ==
    /\ Cyc(i).pc = "compile"
    /\ pkgpath \in AllPkgs \ Cyc(i).compiled
    /\ LET path == AsmLibPath(CycRoot, Cyc(i).entry, pkgpath)
       IN /\ pkgpath = MAIN_PKG_NAME => DirExists(path)
          /\ fs' = IF pkgpath # MAIN_PKG_NAME /\ CacheValid(CycRoot, pkgpath, path)
                   THEN fs
                   ELSE WriteFile(path, Object(CycRoot, pkgpath))
          /\ cyc' = [cyc EXCEPT !.c[i].compiled = @ \cup {pkgpath},
                                !.c[i].created = IF pkgpath = MAIN_PKG_NAME THEN @ \cup {path} ELSE @]
    /\ UNCHANGED <<srcVer, build, hist, cl, par>>
    /\ UNCHANGED <<sessVars, drvVars, execVars>>

\* The entry object cannot be written: waiting for it runs into the deadline.
CycCompileTimeout(i) ==
    /\ Cyc(i).pc = "compile"
    /\ MAIN_PKG_NAME \notin Cyc(i).compiled
    /\ ~DirExists(AsmLibPath(CycRoot, Cyc(i).entry, MAIN_PKG_NAME))
    /\ cyc' = [cyc EXCEPT !.c[i].pc = "cleanup",
                          !.c[i].result = [kind |-> "Timeout", msg |-> "none"]]
    /\ UNCHANGED <<fs, srcVer, build, hist, cl, par>>
    /\ UNCHANGED <<sessVars, drvVars, execVars>>

\* Mutant: the link begins as soon as the entry package is compiled.
LinkReady_EntryOnly(c) == MAIN_PKG_NAME \in c.compiled

\* The link begins when every package of the program has been compiled.
LinkReady(c) == c.compiled = AllPkgs

\* Link: the objects of the reachable packages into one library beside the
\* entry file; a missing object of a reachable package is a LinkFailure
\* naming the package.
CycLink(i) ==
    /\ Cyc(i).pc = "compile"
    /\ LinkReady(Cyc(i))
    /\ LET set == LinkSet(ImportNamesPassed(cyc.import_names))
           missing == {p \in set : AsmLibPath(CycRoot, Cyc(i).entry, p) \notin DOMAIN fs}
       IN IF missing # {}
          THEN /\ \E p \in missing :
                     cyc' = [cyc EXCEPT !.c[i].pc = "cleanup",
                                        !.c[i].result = [kind |-> "LinkFailure", msg |-> p]]
               /\ fs' = fs
          ELSE /\ fs' = WriteFile(LibPath(Cyc(i).entry), [pkg |-> "lib", root |-> CycRoot, ver |-> 0])
               /\ cyc' = [cyc EXCEPT !.c[i].pc = "load",
                                     !.c[i].linked = set,
                                     !.c[i].created = @ \cup {LibPath(Cyc(i).entry)}]
    /\ UNCHANGED <<srcVer, build, hist, cl, par>>
    /\ UNCHANGED <<sessVars, drvVars, execVars>>

\* Load the linked library.
CycLoad(i) ==
    /\ Cyc(i).pc = "load"
    /\ LibPath(Cyc(i).entry) \in DOMAIN fs
    /\ cyc' = [cyc EXCEPT !.c[i].pc = "invoke", !.c[i].loaded = TRUE]
    /\ UNCHANGED <<fs, srcVer, build, hist, cl, par>>
    /\ UNCHANGED <<sessVars, drvVars, execVars>>

InvokeOutcomes == {"ok", "fault", "timeout"}

\* tests.rs 612-621: exec_with_err_result_at passes when no panic came out of
\* exec_program.
ErrTestAccepts(unwound) == ~unwound

\* Invoke the entry computation under the deadline, inside the protective
\* boundary unless the caller asked for none.  A fault inside the boundary
\* becomes a failure result, recorded in the session; outside it unwinds
\* through the caller.
CycInvoke(i) ==
    /\ Cyc(i).pc = "invoke"
    /\ \E o \in InvokeOutcomes :
          LET unwinds == o = "fault" /\ Cyc(i).args.unprotected
              res == IF o = "ok" THEN [kind |-> "Ok", msg |-> "none"]
                     ELSE IF o = "timeout" THEN [kind |-> "Timeout", msg |-> "none"]
                     ELSE IF unwinds THEN NoRes
                     ELSE [kind |-> "RuntimeFault", msg |-> "none"]
          IN /\ cyc' = [cyc EXCEPT
                   !.c[i].attempts = @ + 1,
                   !.c[i].pc = IF unwinds THEN "unwound" ELSE "cleanup",
                   !.c[i].unwound = unwinds,
                   !.c[i].result = res,
                   !.assertsOk = @ /\ (Cyc(i).args = ArgsDefault => ErrTestAccepts(unwinds))]
             /\ IF res.kind = "RuntimeFault"
                THEN Push(Diag("error", "RuntimeFault", "execute"))
                ELSE UNCHANGED sessVars
    /\ UNCHANGED <<fs, srcVer, build, hist, cl, par>>
    /\ UNCHANGED <<drvVars, execVars>>

\* tests.rs 315-328: what the timeout test accepts of gen_libs.
TimeoutTestAccepts(res) == res.kind # "Ok" /\ UnwrapPanicMsg(res) = timeout_panic_msg

\* Mutant: only a successful cycle removes what it created.
CleanupSet_OkOnly(c) == IF c.result.kind = "Ok" THEN c.created ELSE {}

\* What a cycle removes before it returns: every file it created.
CleanupSet(c) == c.created

\* Every exit path: the library is released, what the cycle created is
\* removed, the temp directory is given back, the result is returned.
CycCleanup(i) ==
    /\ Cyc(i).pc = "cleanup"
    /\ fs' = RemoveFiles(CleanupSet(Cyc(i)))
    /\ cyc' = [cyc EXCEPT !.c[i].pc = "done", !.c[i].loaded = FALSE,
                          !.assertsOk = @ /\ (Cyc(i).caller = "timeout_test"
                                                 => TimeoutTestAccepts(Cyc(i).result))]
    /\ UNCHANGED <<srcVer, build, hist, cl, par>>
    /\ UNCHANGED <<sessVars, drvVars, execVars>>

\* tests.rs 524-529, 532-548: clean_dir of the root's .kclvm directory.
CycCleanDir ==
    /\ ~cyc.cleaned
    /\ fs' = RemoveFiles({q \in DOMAIN fs : InDir(Join(<<CycRoot>>, <<".kclvm">>), q)})
    /\ cyc' = [cyc EXCEPT !.cleaned = TRUE]
    /\ UNCHANGED <<srcVer, build, hist, cl, par>>
    /\ UNCHANGED <<sessVars, drvVars, execVars>>

CycInit ==
    /\ InitSess /\ InitClient /\ InitExec
    /\ fs = <<>> /\ build = <<>> /\ hist = <<>> /\ cl = <<>> /\ par = <<>>
    /\ srcVer = (CycRoot :> [pkgs |-> AllPkgs, ver |-> [p \in AllPkgs |-> 0]])
    /\ \E g \in ImportGraphs :
          cyc = [import_names |-> g, cleaned |-> FALSE, assertsOk |-> TRUE,
                 c |-> [i \in Cycles |-> IdleCycle]]

CycNext ==
    \/ \E i \in Cycles : CycStartExec(i)
    \/ \E i \in Cycles : CycStartTimeoutTest(i)
    \/ \E i \in Cycles, pkgpath \in AllPkgs : CycCompile(i, pkgpath)
    \/ \E i \in Cycles : CycCompileTimeout(i)
    \/ \E i \in Cycles : CycLink(i)
    \/ \E i \in Cycles : CycLoad(i)
    \/ \E i \in Cycles : CycInvoke(i)
    \/ \E i \in Cycles : CycCleanup(i)
    \/ CycCleanDir

CycleSpec == CycInit /\ [][CycNext]_vars

\* ------------------------------------------------------------------
\* Claims
\* ------------------------------------------------------------------

ErrorsIn(seq) == {i \in DOMAIN seq : seq[i].severity = "error"}
DriverPushes == {i \in DOMAIN pushLog : pushLog[i].by = "driver"}

\* C1: the driver pushes exec_program's message only when has_errors was
\* false at that moment (no error diagnostic precedes the driver's push, and
\* none is pushed after has_errors answered true), so no two error
\* diagnostics of the emitted sequence report the same root cause.
C1_CheckBeforePush ==
    /\ \A i \in DriverPushes :
          /\ hasErr = "false"
          /\ \A j \in 1..(i - 1) : pushLog[j].severity # "error"
    /\ (hasErr = "true" => DriverPushes = {})
    /\ \A i, j \in ErrorsIn(emitted) : i # j => emitted[i].cause # emitted[j].cause

\* C1 witness: exec_program failed after routing its failure through the
\* session; the driver found has_errors true, pushed nothing and emitted.
C1_Witness ==
    /\ outcome = "Abort" /\ hasErr = "true"
    /\ DriverPushes = {}
    /\ ErrorsIn(emitted) # {}

C3_StateMachine ==
    /\ sessState = "Clean"
    /\ [][ /\ (sessState' # sessState =>
                 <<sessState, sessState'>> \in
                     {<<"Clean", "Accumulating">>, <<"Accumulating", "Emitted">>})
           /\ (sessState = "Emitted" => UNCHANGED sessVars)
           /\ emitCalls' <= 1
           /\ emitCount' <= 1
           /\ (outcome' = "Abort" => emitCount' = 1) ]_vars

\* C3 witness: the session went Clean -> Accumulating -> Emitted.
C3_Witness ==
    /\ sessState = "Emitted" /\ emitCount = 1 /\ pc = "done"
    /\ Len(pushLog) >= 2

\* C4: what emit printed is exactly the push history: every diagnostic,
\* once, in push order, whichever phase pushed it.
C4_EmitAllInOrder ==
    sessState = "Emitted" => emitted = pushLog

\* C4 witness: diagnostics of two different phases and of the driver were
\* emitted.
C4_Witness ==
    /\ sessState = "Emitted"
    /\ \E i, j, k \in DOMAIN emitted :
          /\ i < j /\ j < k
          /\ emitted[i].by \in PhaseSet /\ emitted[j].by \in PhaseSet
          /\ emitted[i].by # emitted[j].by
          /\ emitted[k].by = "driver"

\* C5: the value has_errors returns is true exactly when some pushed
\* diagnostic is error-severity, and the call changes nothing of the session.
C5_HasErrorsPure ==
    [][ hasErr' # hasErr =>
          /\ hasErr' = Answer(ErrorsIn(pushLog) # {})
          /\ UNCHANGED sessVars ]_vars

\* C5 witness: has_errors answered false on a session holding only warnings.
C5_Witness ==
    /\ hasErr = "false" /\ Len(pushLog) >= 1 /\ sessState = "Accumulating"

\* C6: emit on a Clean session changes nothing of the session, prints
\* nothing and reports successful completion.
C6_EmitCleanNoop ==
    [][ (emitCalls' # emitCalls /\ sessState = "Clean") =>
          /\ UNCHANGED sessData
          /\ emitted' = <<>>
          /\ outcome' = "Ok" ]_vars

\* C6 witness: emit was called on a Clean session.
C6_Witness ==
    /\ pc = "client" /\ emitCalls >= 1 /\ sessState = "Clean" /\ outcome = "Ok"

InBuild == build.pc \in {"gen", "returned", "asserted"}
Returned == build.pc \in {"returned", "asserted"}
PathsReturned == {build.libPaths[i] : i \in DOMAIN build.libPaths}
CacheEntriesOf(root, pkgpath) ==
    {q \in DOMAIN fs : InDir(ConstructCacheDir(root), q) /\ fs[q].pkg = pkgpath}

\* C7: a successful gen_libs on a program of N packages returns N paths, one
\* per package of Program.pkgs (the paths construct_pkg_lib_path expects),
\* and each of them exists on disk when the call returns; the assertions of
\* gen_libs_for_test hold.
C7_OnePathPerPackage ==
    Returned =>
        /\ Len(build.libPaths) = Cardinality(build.pkgs)
        /\ Cardinality(PathsReturned) = Cardinality(build.pkgs)
        /\ PathsReturned = {build.expected[p] : p \in build.pkgs}
        /\ \A i \in DOMAIN build.libPaths : build.libPaths[i] \in DOMAIN fs
        /\ build.assertsOk

\* C7 witness: gen_libs returned for a program of three packages and the
\* test's assertions were evaluated.
C7_Witness ==
    /\ build.pc = "asserted" /\ Cardinality(build.pkgs) = 3
    /\ Len(build.libPaths) = 3

\* C8: in every build the entry package's object is written only at
\* entry_file + suffix, outside the cache directory, and is rebuilt, never
\* looked up; every other package's object is written at
\* cache_dir(root)/pkgpath + suffix; after a successful assembly each
\* non-entry package has exactly one cache entry; no cache directory ever
\* holds an entry-package object.
C8_EntryNeverCached ==
    /\ \A q \in DOMAIN fs, r \in Roots :
          InDir(ConstructCacheDir(r), q) => fs[q].pkg # MAIN_PKG_NAME
    /\ InBuild =>
        /\ \A w \in build.writes :
              /\ w.path = build.expected[w.pkg]
              /\ w.pkg = MAIN_PKG_NAME =>
                    /\ w.path = Concat(build.entry, OBJECT_FILE_SUFFIX)
                    /\ ~InDir(ConstructCacheDir(build.root), w.path)
              /\ w.pkg # MAIN_PKG_NAME =>
                    w.path = Join(ConstructCacheDir(build.root),
                                  Concat(<<w.pkg>>, OBJECT_FILE_SUFFIX))
        /\ \A r \in build.reads :
              r.pkg # MAIN_PKG_NAME /\ InDir(ConstructCacheDir(build.root), r.path)
        /\ MAIN_PKG_NAME \in DOMAIN build.served => MAIN_PKG_NAME \in build.regen
        /\ Returned =>
              \A p \in build.pkgs \ {MAIN_PKG_NAME} :
                  Cardinality(CacheEntriesOf(build.root, p)) = 1

\* C8 witness: a build of three packages wrote the entry object and a cache
\* entry and returned.
C8_Witness ==
    /\ build.pc = "returned" /\ Cardinality(build.pkgs) = 3
    /\ \E w1, w2 \in build.writes : w1.pkg = MAIN_PKG_NAME /\ w2.pkg # MAIN_PKG_NAME

\* C9: when a root is built again after a successful build and a non-entry
\* package's modules were not modified in between, the package is not
\* regenerated: the build returns the object found at the cache path, which
\* is the path construct_pkg_lib_path gives whatever the entry file.
C9_NoRegenOnRebuild ==
    InBuild =>
        \A p \in DOMAIN build.served :
            (p # MAIN_PKG_NAME /\ build.prev[p] = srcVer[build.root].ver[p]) =>
                /\ p \notin build.regen
                /\ build.served[p].path = build.expected[p]
                /\ build.expected[p] \in DOMAIN fs
                /\ fs[build.expected[p]] = build.served[p].obj

\* C9 witness: a rebuild returned, reusing an unmodified package's cached
\* object while regenerating the entry object.
C9_Witness ==
    /\ build.pc = "returned"
    /\ \E p \in build.pkgs \ {MAIN_PKG_NAME} :
          /\ build.prev[p] = srcVer[build.root].ver[p]
          /\ p \notin build.regen
    /\ MAIN_PKG_NAME \in build.regen

\* C10: the object a build serves for a package is one made from the
\* package's modules as they are at that build, of that root: a cached
\* object made from earlier modules is never served.
C10_NoStaleServed ==
    InBuild =>
        \A p \in DOMAIN build.served :
            build.served[p].obj = Object(build.root, p)

\* C10 witness: a build found a cached object made from earlier modules and
\* served a regenerated one.
C10_Witness ==
    /\ build.pc = "returned"
    /\ \E p \in build.stale : p # MAIN_PKG_NAME /\ p \in DOMAIN build.served

CodegenFailures == FailCauses("assemble")

\* C19: when a package fails to lower, exec_program fails with a
\* CodegenFailure naming that package, the failure is already an error
\* diagnostic of the session pushed by the assemble phase before any emit
\* call, and has_errors answers true at the driver's check, which therefore
\* pushes nothing.
C19_CodegenFailureRecorded ==
    (execRes.kind = "Err" /\ execRes.msg \in CodegenFailures) =>
        /\ \E i \in ErrorsIn(pushLog) :
              /\ pushLog[i].cause = execRes.msg /\ pushLog[i].by = "assemble"
              /\ (emitted # <<>> => i <= Len(emitted))
        /\ (emitCalls = 0 => HasErrors)
        /\ hasErr \in {"unset", "true"}
        /\ DriverPushes = {}

\* C19 witness: package b failed to lower; has_errors was true at the
\* driver's check and the run ended by the abort.
C19_Witness ==
    /\ execRes.kind = "Err" /\ execRes.msg = CodegenFailure("b")
    /\ hasErr = "true" /\ outcome = "Abort"

\* C20: whenever the driver is about to call emit, and whenever emit has
\* been called, the session is Accumulating (not Clean) and holds an
\* error-severity diagnostic; if has_errors answered false, the last
\* diagnostic is the driver's error carrying exec_program's message.
C20_EmitOnlyWithError ==
    /\ pc = "emit" =>
          /\ sessState = "Accumulating"
          /\ HasErrors /\ ErrorsIn(diags) # {}
          /\ hasErr = "false" =>
                diags[Len(diags)] = Diag("error", execRes.msg, "driver")
    /\ emitCalls > 0 => (emitCount = emitCalls /\ ErrorsIn(emitted) # {})

\* C20 witness: the lower layers pushed only warnings; the driver added the
\* message as an error and is about to emit.
C20_Witness ==
    /\ pc = "emit" /\ hasErr = "false"
    /\ Len(diags) >= 2 /\ diags[1].severity = "warning"

\* What a call of clean_path_for_genlibs(base, suffix) is to remove: base
\* itself and the files <base>.<shard><suffix> beside it.
CleanTargets(base, suffix) ==
    {base} \cup {Concat(base, <<d>> \o suffix) : d \in DotPieces}

\* C15: every call of clean_path_for_genlibs(base, suffix) succeeds and
\* removes exactly base and the files matching base.*suffix that exist,
\* leaving every other file as it was; when none of them exists (base
\* already removed or never there, no shard) the filesystem is unchanged;
\* the assertions of test_clean_path_for_genlibs hold.
C15_CleanPathForGenlibs ==
    [][ cl'.calls # cl.calls =>
          /\ cl'.ok /\ cl'.assertsOk
          /\ DOMAIN fs' = DOMAIN fs \ CleanTargets(cl'.path, cl'.suffix)
          /\ \A q \in DOMAIN fs' : fs'[q] = fs[q]
          /\ (DOMAIN fs \cap CleanTargets(cl'.path, cl'.suffix) = {} => fs' = fs) ]_vars

\* C15 witness: the test's second clean ran on the base already removed and
\* took both shards away while other files stayed.
C15_Witness ==
    /\ cl.pc = "end" /\ cl.calls >= 2 /\ cl.assertsOk
    /\ Shards \cap DOMAIN fs = {}
    /\ DOMAIN fs # {}

\* C16: under every interleaving of the parallel gen_libs threads no two
\* compilations are inside the shared identifier allocation at the same
\* time, no thread panics, and the identifiers handed out are those of a
\* sequential build (all distinct, one per compilation).
C16_ParallelGenLibsSafe ==
    par.pc # "main" =>
        /\ \A t, u \in Threads : (t # u /\ ParThread(t).pc = "alloc") => ParThread(u).pc # "alloc"
        /\ \A t \in Threads : ParThread(t).pc # "panicked"
        /\ par.pc # "panicked"
        /\ \A t, u \in Threads : t # u => ParThread(t).ids \cap ParThread(u).ids = {}
        /\ \A t \in Threads : Cardinality(ParThread(t).ids) = ParThread(t).iter

\* C11: in every cycle the link begins only when all packages are compiled
\* and the objects it is given exist, the library is loaded only after the
\* link has written it, and the entry computation is invoked only after the
\* load; nothing orders the compilation of different packages.
C11_PhaseOrder ==
    [][ \A i \in Cycles :
          /\ cyc'.c[i].linked # cyc.c[i].linked =>
                /\ cyc.c[i].compiled = AllPkgs
                /\ \A p \in cyc'.c[i].linked :
                      AsmLibPath(CycRoot, cyc.c[i].entry, p) \in DOMAIN fs
          /\ (cyc'.c[i].loaded /\ ~cyc.c[i].loaded) =>
                /\ cyc.c[i].linked # {}
                /\ LibPath(cyc.c[i].entry) \in DOMAIN fs
          /\ cyc'.c[i].attempts # cyc.c[i].attempts =>
                /\ cyc.c[i].loaded
                /\ cyc.c[i].compiled = AllPkgs ]_vars

\* C11 witness: one cycle went through link, load and invocation to Ok
\* while the other has compiled a non-entry package before the entry one.
C11_Witness ==
    /\ Cyc(1).result.kind = "Ok" /\ Cyc(1).attempts = 1 /\ Cyc(1).linked # {}
    /\ Cyc(2).pc = "compile" /\ Cyc(2).compiled = {"b"}

\* C12: a cycle that runs into the deadline ends with the Timeout failure;
\* its panic text differs from that of every other failure kind; once set
\* the Timeout result stays, and the cycle compiles, links and invokes
\* nothing more (no retry) and goes only to cleanup and return; the timeout
\* test gets the panic it expects.
C12_TimeoutDistinctFatal ==
    [][ /\ cyc'.assertsOk
        /\ \A i \in Cycles :
              /\ cyc.c[i].result.kind = "Timeout" =>
                    /\ cyc'.c[i].result = cyc.c[i].result
                    /\ cyc'.c[i].attempts = cyc.c[i].attempts
                    /\ cyc'.c[i].compiled = cyc.c[i].compiled
                    /\ cyc'.c[i].linked = cyc.c[i].linked
                    /\ cyc'.c[i].pc \in {"cleanup", "done"}
              /\ cyc'.c[i].attempts <= 1
              /\ cyc'.c[i].result.kind = "Timeout" <=>
                    UnwrapPanicMsg(cyc'.c[i].result) = timeout_panic_msg ]_vars

\* C12 witness: the timeout test's build returned Timeout, and the other
\* cycle ran into the deadline while invoking and returned Timeout too.
C12_Witness ==
    /\ Cyc(1).caller = "timeout_test" /\ Cyc(1).pc = "done" /\ Cyc(1).result.kind = "Timeout"
    /\ Cyc(2).caller = "exec" /\ Cyc(2).pc = "done" /\ Cyc(2).result.kind = "Timeout"
    /\ Cyc(2).attempts = 1
    /\ cyc.assertsOk

ActiveCycles == {j \in Cycles : Cyc(j).pc \notin {"idle", "done"}}

SessionSound ==
    /\ errCount = Cardinality(ErrorsIn(diags))
    /\ pushLog = emitted \o diags
    /\ sessState = "Clean" <=> pushLog = <<>>

\* C14: an invocation inside the protective boundary never unwinds: a
\* fault in the artifact gives the failure result RuntimeFault, the cycle
\* goes on to cleanup, and the session holds what it held plus that one
\* error, its counters sound; only a caller that asked for unprotected
\* behaviour is unwound, and exec_with_err_result_at sees no panic.
C14_FaultIsolated ==
    [][ /\ cyc'.assertsOk
        /\ SessionSound'
        /\ \A i \in Cycles : cyc'.c[i].attempts # cyc.c[i].attempts =>
              /\ cyc'.c[i].unwound => cyc.c[i].args.unprotected
              /\ ~cyc.c[i].args.unprotected =>
                    /\ cyc'.c[i].pc = "cleanup"
                    /\ cyc'.c[i].result.kind \in {"Ok", "Timeout", "RuntimeFault"}
              /\ IF cyc'.c[i].result.kind = "RuntimeFault"
                 THEN /\ diags' = Append(diags, Diag("error", "RuntimeFault", "execute"))
                      /\ errCount' = errCount + 1
                 ELSE UNCHANGED sessVars ]_vars

\* C14 witness: a protected caller got RuntimeFault as a result and
\* returned, and a caller that asked for unprotected behaviour was unwound.
C14_Witness ==
    /\ Cyc(1).pc = "done" /\ Cyc(1).result.kind = "RuntimeFault" /\ ~Cyc(1).unwound
    /\ HasErrors
    /\ Cyc(2).unwound /\ Cyc(2).args.unprotected

\* The temp paths a cycle works at: its temp entry file, the entry object
\* and the library beside it.
TempPathsOf(i) ==
    {Cyc(i).entry, AsmLibPath(CycRoot, Cyc(i).entry, MAIN_PKG_NAME), LibPath(Cyc(i).entry)}

\* C17: two cycles that run at the same time on temp_file paths have
\* different temp directories and disjoint temp paths, and every temp file
\* on disk was created by exactly one running cycle.
C17_TempPathsUnique ==
    /\ \A i, j \in ActiveCycles :
          (i # j /\ Cyc(i).caller = "exec" /\ Cyc(j).caller = "exec") =>
              /\ Cyc(i).dir # Cyc(j).dir
              /\ TempPathsOf(i) \cap TempPathsOf(j) = {}
              /\ Cyc(i).created \cap Cyc(j).created = {}
    /\ \A q \in DOMAIN fs : \A i, j \in ActiveCycles :
          (q \in Cyc(i).created /\ q \in Cyc(j).created) => i = j

\* C17 witness: both cycles are invoking their libraries, made from temp
\* files of the same name in different temp directories.
C17_Witness ==
    /\ Cyc(1).pc = "invoke" /\ Cyc(2).pc = "invoke"
    /\ Cyc(1).entry[Len(Cyc(1).entry)] = Cyc(2).entry[Len(Cyc(2).entry)]
    /\ Cyc(1).dir # Cyc(2).dir
    /\ LibPath(Cyc(1).entry) \in DOMAIN fs /\ LibPath(Cyc(2).entry) \in DOMAIN fs

\* The least set of packages that holds the entry package and, with a
\* package, everything it imports.
ImportClosure ==
    LET Closed(S) == MAIN_PKG_NAME \in S /\ \A p \in S : cyc.import_names[p] \subseteq S
    IN CHOOSE S \in SUBSET AllPkgs :
          Closed(S) /\ \A T \in SUBSET AllPkgs : Closed(T) => S \subseteq T

\* C18: a link that makes a library was given exactly the packages of the
\* import closure of the entry package, all of whose objects exist; a link
\* that finds the object of a package of the closure missing makes no
\* library and fails with a LinkFailure naming such a package.
C18_LinkSetIsClosure ==
    [][ \A i \in Cycles :
          /\ cyc'.c[i].linked # cyc.c[i].linked =>
                /\ cyc'.c[i].linked = ImportClosure
                /\ \A p \in ImportClosure :
                      AsmLibPath(CycRoot, cyc.c[i].entry, p) \in DOMAIN fs
                /\ LibPath(cyc.c[i].entry) \in DOMAIN fs'
          /\ (cyc'.c[i].result.kind = "LinkFailure" /\ cyc.c[i].result.kind = "none") =>
                /\ cyc'.c[i].result.msg \in ImportClosure
                /\ AsmLibPath(CycRoot, cyc.c[i].entry, cyc'.c[i].result.msg) \notin DOMAIN fs
                /\ cyc'.c[i].linked = {}
                /\ fs' = fs
          /\ (cyc.c[i].pc = "compile" /\ cyc'.c[i].pc = "load") =>
                cyc'.c[i].linked # {} ]_vars

\* C18 witness: package b is in the program but not imported; one cycle
\* linked the entry package and a only and returned Ok, the other failed
\* its link naming a, whose cached object had been removed.
C18_Witness ==
    /\ "b" \notin ImportClosure
    /\ Cyc(1).linked = {MAIN_PKG_NAME, "a"} /\ Cyc(1).result.kind = "Ok"
    /\ Cyc(2).result = [kind |-> "LinkFailure", msg |-> "a"]
    /\ Cyc(2).compiled = AllPkgs

\* The result was delivered once, to the configured place.
DeliveredOnce ==
    /\ stdout + fileOut = 1
    /\ output = "Some" => fileOut = 1
    /\ output = "None" => stdout = 1

\* The driver has left the session as exec_program left it.
SessionUntouchedByDriver ==
    /\ DriverPushes = {} /\ emitCalls = 0
    /\ diags = pushLog /\ emitted = <<>>

\* C21 as stated: whenever exec_program returned a result, run_command
\* ends reporting success with the result delivered exactly once and the
\* session untouched by the driver.
C21_SuccessAlwaysDelivered ==
    (pc = "done" /\ execRes.kind = "Ok") =>
        /\ outcome = "Ok"
        /\ DeliveredOnce
        /\ SessionUntouchedByDriver

\* C21 amended: after exec_program returned a result no step of the driver
\* changes the session (no push, no emit, warnings stay stashed); when the
\* write of the result goes through it is delivered exactly once, to the
\* file if one is configured and to standard output otherwise, and Ok is
\* returned; when the write fails run_command panics with nothing delivered.
C21_SuccessPathFrame ==
    [][ /\ execRes.kind = "Ok" =>
              /\ UNCHANGED sessVars
              /\ UNCHANGED <<output, execRes, hasErr>>
        /\ (pc' = "done" /\ execRes'.kind = "Ok") =>
              /\ SessionUntouchedByDriver'
              /\ outcome' \in {"Ok", "Panic"}
              /\ outcome' = "Ok" => DeliveredOnce'
              /\ outcome' = "Panic" => stdout' + fileOut' = 0 ]_vars

\* C21 witness: a run with warnings succeeded, its result went to the
\* configured file and not to standard output, and the warnings are still
\* stashed and un-emitted.
C21_Witness ==
    /\ pc = "done" /\ execRes.kind = "Ok" /\ outcome = "Ok"
    /\ output = "Some" /\ fileOut = 1 /\ stdout = 0
    /\ Len(diags) = MaxWarn /\ sessState = "Accumulating" /\ emitCalls = 0

====
